---- MODULE Spec2Model ----
(***************************************************************************)
(* Toast notifications (src/src/components/ui/Toast.tsx).                  *)
(*                                                                         *)
(* ToastProvider owns the list `toasts` and mutates it only through        *)
(* setToasts updaters queued by addToast and removeToast.  ToastContainer  *)
(* renders one ToastItem per element of the list; every ToastItem has the  *)
(* two flags isVisible / isLeaving and schedules setTimeout callbacks: the *)
(* entrance tick (10 ms), the expiry timer (toast.duration || 5000) and,   *)
(* from handleRemove, the exit hold (300 ms).                              *)
(*                                                                         *)
(* Time is the integer `now` in milliseconds.  It advances only up to the  *)
(* earliest pending deadline, and a timer fires when its deadline is       *)
(* reached, timers with the same deadline in the order they were created.  *)
(*                                                                         *)
(* Math.random() is a nondeterministic choice of an id.  The program only   *)
(* compares ids for equality (line 165), so ids are numbered in the order  *)
(* they first appear: a drawn id is one of those seen so far or the next   *)
(* new one, up to NumIds different ids.                                    *)
(* Every toast object carries `serial`, the number of the addToast call    *)
(* that built it: it stands for the identity of the JavaScript object and  *)
(* no operation compares or filters by it.  ToastContainer renders one     *)
(* ToastItem per element of the list (lines 139-143), so a ToastItem is    *)
(* identified by the serial of the toast it renders; React's handling of   *)
(* two sibling elements with the same key is not modelled beyond that.     *)
(*                                                                         *)
(* setToasts queues its updater; Render applies the queue in order and     *)
(* mounts and unmounts the ToastItems.  Time does not advance while        *)
(* updaters are queued.                                                    *)
(***************************************************************************)
EXTENDS Integers, Sequences, FiniteSets, TLC

\* ---------------------------------------------------------------- bounds
MaxAdds == 2
MaxClicks == 2
MaxApiRemoves == 1
MaxPending == 2
MaxTime == 5400
NumIds == 2
MaxWarnings == 2

\* ------------------------------------------------------ program constants
DefaultDuration == 5000
ExitHold == 300
EntranceTick == 10

\* ------------------------------------------------------------ JS values
\* An optional value: <<>> is undefined, <<v>> is the value v.
Undefined == << >>
Some(v) == << v >>

ToastType == {"success", "error", "warning", "info"}
Ids == 1 .. NumIds
Serials == 1 .. MaxAdds

\* Inputs callers pass.
Messages == {"Saved successfully"}
Titles == {Undefined, Some("Upload error")}
InputDurations == {Some(0), Some(5), Some(400)}
InputPersistent == {Some(TRUE)}
InputTypes == {"info"}

\* toastData objects handed to addToast directly: type and message, and any
\* of duration / persistent.
ToastDataInputs ==
    [type : InputTypes, message : Messages]
    \cup [type : InputTypes, message : Messages, duration : InputDurations]
    \cup [type : InputTypes, message : Messages, persistent : InputPersistent]
    \cup [type : InputTypes, message : Messages, duration : {Some(5)},
          persistent : InputPersistent]

\* Reading a property of an object: undefined when the key is missing.
\* A property that may be undefined holds an optional value.
Prop(obj, key) == IF key \in DOMAIN obj THEN obj[key] ELSE Undefined

VARIABLES
    now,             \* current time, ms
    providerMounted, \* ToastProvider is mounted
    toasts,          \* useState<Toast[]> of ToastProvider (line 151)
    queue,           \* setToasts updaters not yet applied by a render
    items,           \* serials of the mounted ToastItems
    isVisible,       \* ToastItem state (line 53), by serial
    isLeaving,       \* ToastItem state (line 54), by serial
    timers,          \* pending setTimeout callbacks, in creation order
    numAdds,         \* addToast calls so far
    idsSeen,         \* how many different ids have appeared so far
    \* history, read by no operation
    numRemoved,      \* removeToast updaters that ran with their id present
    given,           \* serial -> the duration and persistent its caller passed
    addedAt,         \* serial -> time of the addToast call
    mountedAt,       \* serial -> time its ToastItem mounted
    closedAt,        \* serial -> time the close button was first clicked
    clicks,          \* close-button clicks so far
    apiRemoves,      \* ids passed to removeToast by application code
    apiHit,          \* serials of the toasts those calls named while they were alive
    requests,        \* removal requests issued by exit-hold timers
    called,          \* the list had every addToast / removeToast call run at once
    \* outside the provider
    hookResult,      \* what the last useToast() call did
    warnings         \* console.warn calls so far

vars == << now, providerMounted, toasts, queue, items, isVisible, isLeaving,
           timers, numAdds, idsSeen, numRemoved, given, addedAt, mountedAt, closedAt,
           clicks, apiRemoves, apiHit, requests, called, hookResult, warnings >>

hist == << numRemoved, given, addedAt, mountedAt, closedAt, clicks, apiRemoves,
           apiHit, requests >>

outside == << hookResult, warnings >>

\* ------------------------------------------------------------- helpers
Min(S) == CHOOSE x \in S : \A y \in S : x <= y

RemoveAt(seq, i) == [j \in 1 .. Len(seq) - 1 |-> IF j < i THEN seq[j] ELSE seq[j + 1]]

RECURSIVE Concat(_)
Concat(ss) == IF ss = << >> THEN << >> ELSE Head(ss) \o Concat(Tail(ss))

SerialsOf(list) == {list[i].serial : i \in 1 .. Len(list)}
IdsOf(list) == {list[i].id : i \in 1 .. Len(list)}
ToastOf(s) == toasts[CHOOSE i \in 1 .. Len(toasts) : toasts[i].serial = s]

\* The toasts in the list and those a queued addToast updater will add.
Alive ==
    {toasts[i] : i \in 1 .. Len(toasts)}
    \cup {queue[k].toast : k \in {j \in 1 .. Len(queue) : queue[j].op = "add"}}

\* The ids a call can name or draw: those seen so far and the next new one.
IdChoices == {id \in Ids : id <= idsSeen + 1}
SeenWith(id) == IF id > idsSeen THEN id ELSE idsSeen

\* ------------------------------------------------------ ToastProvider
\* Line 154: Math.random().toString(36).substr(2, 9)
RandomIds == IdChoices

\* (mutant) the defaults are spread after toastData and win over it.
NewToast_DefaultsWin(toastData, id, serial) ==
    LET merged == [id |-> id, duration |-> Some(DefaultDuration)] @@ toastData
    IN  [serial |-> serial,
         id |-> merged.id,
         type |-> merged.type,
         title |-> Prop(merged, "title"),
         message |-> merged.message,
         duration |-> Prop(merged, "duration"),
         persistent |-> Prop(merged, "persistent")]

\* addToast, lines 154-159: the toast object built from toastData; the spread
\* of toastData comes last, so its keys win over the default duration.
NewToast(toastData, id, serial) ==
    LET merged == toastData @@ [id |-> id, duration |-> Some(DefaultDuration)]
    IN  [serial |-> serial,
         id |-> merged.id,
         type |-> merged.type,
         title |-> Prop(merged, "title"),
         message |-> merged.message,
         duration |-> Prop(merged, "duration"),
         persistent |-> Prop(merged, "persistent")]

\* (mutant) the toast is put at the end of the list.
AddUpdater_AtEnd(toast, prev) == prev \o << toast >>

\* The updater of addToast, line 161: prev => [toast, ...prev]
AddUpdater(toast, prev) == << toast >> \o prev

\* (mutant) the filter keeps the toasts it should drop.
KeepToast_Inverted(t, id) == t.id = id

\* The updater of removeToast, line 165: prev => prev.filter(t => t.id !== id)
KeepToast(t, id) == t.id # id
RemoveUpdater(id, prev) == SelectSeq(prev, LAMBDA t : KeepToast(t, id))

ApplyUpdater(u, prev) ==
    IF u.op = "add" THEN AddUpdater(u.toast, prev) ELSE RemoveUpdater(u.id, prev)

\* Variant of the render in which every queued updater sees the list of the
\* last render, so that the last one queued wins.
ApplyQueue_Stale(q, prev) ==
    IF q = << >> THEN prev ELSE ApplyUpdater(q[Len(q)], prev)

\* React applies the queued updaters in the order they were queued.
RECURSIVE ApplyQueue(_, _)
ApplyQueue(q, prev) ==
    IF q = << >> THEN prev ELSE ApplyQueue(Tail(q), ApplyUpdater(Head(q), prev))

\* How many of the queued removeToast updaters find their id in the list.
RECURSIVE CountRemoved(_, _)
CountRemoved(q, prev) ==
    IF q = << >> THEN 0
    ELSE (IF Head(q).op = "remove" /\ Head(q).id \in IdsOf(prev) THEN 1 ELSE 0)
         + CountRemoved(Tail(q), ApplyUpdater(Head(q), prev))

\* setToasts: queues the updater; a no-op once the provider is unmounted.
SetToasts(u) == IF providerMounted THEN Append(queue, u) ELSE queue

\* Who called removeToast: the application, or the item of a serial.
Application == 0

\* The history `called`: the updater of each call applied when it is called.
CalledWith(u) == IF providerMounted THEN ApplyUpdater(u, called) ELSE called

\* ---------------------------------------------------------- ToastItem
\* Variant of the expiry effect's condition that does not look at persistent.
HasExpiry_IgnoresPersistent(toast) == toast.duration # Some(0)

\* The expiry effect's condition, line 63.
HasExpiry(toast) == toast.persistent \notin {Some(TRUE)} /\ toast.duration # Some(0)

\* (mutant) the delay is taken in seconds.
ExpiryDelay_Seconds(toast) ==
    IF toast.duration \in {Undefined, Some(0)} THEN DefaultDuration \div 1000
    ELSE toast.duration[1] \div 1000

\* The expiry delay, line 66: toast.duration || 5000
ExpiryDelay(toast) ==
    IF toast.duration \in {Undefined, Some(0)} THEN DefaultDuration
    ELSE toast.duration[1]

\* The timers the two mount effects of one ToastItem schedule, lines 56-69.
MountTimers(toast) ==
    << [kind |-> "entrance", owner |-> toast.serial, id |-> toast.id,
        due |-> now + EntranceTick] >>
    \o (IF HasExpiry(toast)
        THEN << [kind |-> "expiry", owner |-> toast.serial, id |-> toast.id,
                 due |-> now + ExpiryDelay(toast)] >>
        ELSE << >>)

\* The effects' cleanups, lines 59 and 67: clearTimeout of the entrance tick
\* and of the expiry timer.  The timeout of handleRemove (line 73) is not
\* cleared by any cleanup.
ClearedOnUnmount(t, gone) == t.kind \in {"entrance", "expiry"} /\ t.owner \in gone

\* (mutant) the exit hold waits for the expiry delay instead of 300 ms.
ExitTimer_Late(s, id) ==
    [kind |-> "exit", owner |-> s, id |-> id, due |-> now + DefaultDuration]

\* The exit-hold timer of handleRemove, lines 73-75.
ExitTimer(s, id) == [kind |-> "exit", owner |-> s, id |-> id, due |-> now + ExitHold]

\* Variant of getToastStyles that tests isVisible before isLeaving.
EntryState_VisibleFirst(s) ==
    IF isVisible[s] THEN "Visible" ELSE IF isLeaving[s] THEN "Leaving" ELSE "Entering"

\* getToastStyles, lines 88-92: what the item shows.
EntryState(s) ==
    IF isLeaving[s] THEN "Leaving" ELSE IF isVisible[s] THEN "Visible" ELSE "Entering"

\* The timer the event loop runs next: the earliest deadline, the first
\* created among equals.
NextDue == Min({timers[i].due : i \in 1 .. Len(timers)})
NextTimer == Min({i \in 1 .. Len(timers) : timers[i].due = NextDue})
TimerReady(kind) ==
    /\ timers # << >>
    /\ NextDue <= now
    /\ timers[NextTimer].kind = kind

\* ---------------------------------------------- outside the provider
\* The value the provider hands to its subtree, lines 184-191: the six
\* functions, by name.
contextValue == {"addToast", "removeToast", "success", "error", "warning", "info"}

\* useContext(ToastContext), lines 25 and 28: the provider's value below a
\* mounted provider, the default `undefined` elsewhere.
ToastContext == IF providerMounted THEN Some(contextValue) ELSE Undefined

NotCalled == [outcome |-> "none", error |-> Undefined, value |-> Undefined]

\* Variant of useToast without the check of line 29.
useToast_Unchecked(context) ==
    [outcome |-> "returned", error |-> Undefined, value |-> context]

\* useToast, lines 27-33, on the context it reads.
useToast(context) ==
    IF context = Undefined
    THEN [outcome |-> "threw",
          error |-> Some("useToast must be used within a ToastProvider"),
          value |-> Undefined]
    ELSE [outcome |-> "returned", error |-> Undefined, value |-> context]

\* ---------------------------------------------------------------- Init
Init ==
    /\ now = 0
    /\ providerMounted = TRUE
    /\ toasts = << >>
    /\ queue = << >>
    /\ items = {}
    /\ isVisible = [s \in Serials |-> FALSE]
    /\ isLeaving = [s \in Serials |-> FALSE]
    /\ timers = << >>
    /\ numAdds = 0
    /\ idsSeen = 0
    /\ numRemoved = 0
    /\ given = [s \in Serials |-> Undefined]
    /\ addedAt = [s \in Serials |-> Undefined]
    /\ mountedAt = [s \in Serials |-> Undefined]
    /\ closedAt = [s \in Serials |-> Undefined]
    /\ clicks = 0
    /\ apiRemoves = << >>
    /\ apiHit = {}
    /\ requests = {}
    /\ called = << >>
    /\ hookResult = NotCalled
    /\ warnings = 0

\* ------------------------------------------------------------- actions
\* addToast(toastData), lines 153-162.
addToast(toastData) ==
    /\ providerMounted
    /\ numAdds < MaxAdds
    /\ Len(queue) < MaxPending
    /\ \E id \in RandomIds :
          /\ queue' = SetToasts([op |-> "add",
                                 toast |-> NewToast(toastData, id, numAdds + 1)])
          /\ called' = CalledWith([op |-> "add",
                                   toast |-> NewToast(toastData, id, numAdds + 1)])
          /\ idsSeen' = SeenWith(id)
          /\ given' = [given EXCEPT ![numAdds + 1] =
                        Some([duration |-> Prop(toastData, "duration"),
                              persistent |-> Prop(toastData, "persistent")])]
    /\ numAdds' = numAdds + 1
    /\ addedAt' = [addedAt EXCEPT ![numAdds + 1] = Some(now)]
    /\ UNCHANGED << now, providerMounted, toasts, items, isVisible, isLeaving,
                    timers, numRemoved, mountedAt, closedAt, clicks,
                    apiRemoves, apiHit, requests,
                    outside >>

\* success / error / warning / info, lines 168-182.
success(message, title) ==
    addToast([type |-> "success", message |-> message, title |-> title])

error(message, title) ==
    addToast([type |-> "error", message |-> message, title |-> title])

warning(message, title) ==
    addToast([type |-> "warning", message |-> message, title |-> title])

info(message, title) ==
    addToast([type |-> "info", message |-> message, title |-> title])

\* removeToast(id) called by application code, lines 164-166.
RemoveToast ==
    /\ providerMounted
    /\ Len(queue) < MaxPending
    /\ Len(apiRemoves) < MaxApiRemoves
    /\ \E id \in IdChoices :
          /\ idsSeen' = SeenWith(id)
          /\ queue' = SetToasts([op |-> "remove", id |-> id, from |-> Application])
          /\ called' = CalledWith([op |-> "remove", id |-> id, from |-> Application])
          /\ apiRemoves' = Append(apiRemoves, id)
          /\ apiHit' = apiHit \cup {t.serial : t \in {u \in Alive : u.id = id}}
    /\ UNCHANGED << now, providerMounted, toasts, items, isVisible, isLeaving,
                    timers, numAdds, numRemoved, given, addedAt, mountedAt, closedAt,
                    clicks, requests,
                    outside >>

\* The render after setToasts: the queued updaters are applied in order, the
\* ToastItems of toasts that left the list unmount (their effect cleanups
\* run), and a ToastItem mounts for every toast new to the list (lines
\* 139-143), running its two mount effects (lines 56-69).
Render ==
    /\ providerMounted
    /\ queue # << >>
    /\ LET list == ApplyQueue(queue, toasts)
           gone == items \ SerialsOf(list)
           new == [i \in 1 .. Len(list) |->
                     IF list[i].serial \in items THEN << >> ELSE MountTimers(list[i])]
           fresh == SerialsOf(list) \ items
       IN  /\ toasts' = list
           /\ items' = SerialsOf(list)
           /\ timers' = SelectSeq(timers, LAMBDA t : ~ClearedOnUnmount(t, gone))
                        \o Concat(new)
           /\ isVisible' = [s \in Serials |-> IF s \in fresh THEN FALSE ELSE isVisible[s]]
           /\ isLeaving' = [s \in Serials |-> IF s \in fresh THEN FALSE ELSE isLeaving[s]]
           /\ mountedAt' = [s \in Serials |-> IF s \in fresh THEN Some(now) ELSE mountedAt[s]]
    /\ numRemoved' = numRemoved + CountRemoved(queue, toasts)
    /\ queue' = << >>
    /\ UNCHANGED << now, providerMounted, numAdds, idsSeen, given, addedAt,
                    closedAt, clicks, apiRemoves, apiHit, requests,
                    called, outside >>

\* handleRemove, lines 71-76, run by the ToastItem of serial s.
handleRemove(s, rest) ==
    /\ isLeaving' = [isLeaving EXCEPT ![s] = TRUE]
    /\ timers' = Append(rest, ExitTimer(s, ToastOf(s).id))

\* The close button, lines 118-124: onClick = handleRemove.
Close ==
    /\ clicks < MaxClicks
    /\ \E s \in items :
          /\ handleRemove(s, timers)
          /\ closedAt' = [closedAt EXCEPT ![s] = IF @ = Undefined THEN Some(now) ELSE @]
    /\ clicks' = clicks + 1
    /\ UNCHANGED << now, providerMounted, toasts, queue, items, isVisible,
                    numAdds, idsSeen, numRemoved, given, addedAt,
                    mountedAt, apiRemoves, apiHit, requests,
                    called, outside >>

\* The entrance tick fires, line 58: setIsVisible(true).
EntranceFires ==
    /\ TimerReady("entrance")
    /\ isVisible' = [isVisible EXCEPT ![timers[NextTimer].owner] = TRUE]
    /\ timers' = RemoveAt(timers, NextTimer)
    /\ UNCHANGED << now, providerMounted, toasts, queue, items, isLeaving,
                    numAdds, idsSeen, hist,
                    called, outside >>

\* The expiry timer fires, lines 64-66: handleRemove().
ExpiryFires ==
    /\ TimerReady("expiry")
    /\ handleRemove(timers[NextTimer].owner, RemoveAt(timers, NextTimer))
    /\ UNCHANGED << now, providerMounted, toasts, queue, items, isVisible,
                    numAdds, idsSeen, hist,
                    called, outside >>

\* The exit-hold timer fires, line 74: onRemove(toast.id), that is
\* removeToast(id) of the provider.
ExitHoldFires ==
    /\ TimerReady("exit")
    /\ Len(queue) < MaxPending
    /\ queue' = SetToasts([op |-> "remove", id |-> timers[NextTimer].id,
                            from |-> timers[NextTimer].owner])
    /\ called' = CalledWith([op |-> "remove", id |-> timers[NextTimer].id,
                             from |-> timers[NextTimer].owner])
    /\ requests' = requests \cup {[owner |-> timers[NextTimer].owner, at |-> now]}
    /\ timers' = RemoveAt(timers, NextTimer)
    /\ UNCHANGED << now, providerMounted, toasts, items, isVisible, isLeaving,
                    numAdds, idsSeen, numRemoved, given, addedAt,
                    mountedAt, closedAt, clicks, apiRemoves, apiHit,
                    outside >>

\* Time passes up to the next deadline; nothing is waiting to render.
Advance ==
    /\ queue = << >>
    /\ timers # << >>
    /\ NextDue > now
    /\ NextDue <= MaxTime
    /\ now' = NextDue
    /\ UNCHANGED << providerMounted, toasts, queue, items, isVisible, isLeaving,
                    timers, numAdds, idsSeen, hist,
                    called, outside >>

\* The provider unmounts: its state is dropped and every ToastItem unmounts.
ProviderUnmount ==
    /\ providerMounted
    /\ providerMounted' = FALSE
    /\ toasts' = << >>
    /\ queue' = << >>
    /\ items' = {}
    /\ timers' = SelectSeq(timers, LAMBDA t : ~ClearedOnUnmount(t, items))
    /\ called' = << >>
    /\ UNCHANGED << now, isVisible, isLeaving, numAdds, idsSeen, hist, outside >>

\* A component calls useToast(), lines 27-33.
CallUseToast ==
    /\ hookResult' = useToast(ToastContext)
    /\ UNCHANGED << now, providerMounted, toasts, queue, items, isVisible,
                    isLeaving, timers, numAdds, idsSeen, hist, called, warnings >>

\* Variant of the legacy toast() that shows the message through addToast.
LegacyToast_Adds(message, type) ==
    /\ warnings < MaxWarnings
    /\ warnings' = warnings + 1
    /\ queue' = SetToasts([op |-> "add",
                           toast |-> NewToast([type |-> type, message |-> message],
                                              1, MaxAdds)])
    /\ UNCHANGED << now, providerMounted, toasts, items, isVisible, isLeaving,
                    timers, numAdds, idsSeen, hist, called, hookResult >>

\* The legacy toast(message, type = 'info'), lines 201-205: console.warn only.
LegacyToast(message, type) ==
    /\ warnings < MaxWarnings
    /\ warnings' = warnings + 1
    /\ UNCHANGED << now, providerMounted, toasts, queue, items, isVisible,
                    isLeaving, timers, numAdds, idsSeen, hist, called, hookResult >>

Next ==
    \/ \E toastData \in ToastDataInputs : addToast(toastData)
    \/ \E message \in Messages, title \in Titles : success(message, title)
    \/ \E message \in Messages, title \in Titles : error(message, title)
    \/ \E message \in Messages, title \in Titles : warning(message, title)
    \/ \E message \in Messages, title \in Titles : info(message, title)
    \/ RemoveToast
    \/ Render
    \/ Close
    \/ EntranceFires
    \/ ExpiryFires
    \/ ExitHoldFires
    \/ Advance
    \/ ProviderUnmount

Spec == Init /\ [][Next]_vars

\* The calls of application code, in and outside the provider, with the
\* renders they cause and the provider's unmount; no timer is waited for.
NextApi ==
    \/ \E toastData \in ToastDataInputs : addToast(toastData)
    \/ \E message \in Messages, title \in Titles : success(message, title)
    \/ \E message \in Messages, title \in Titles : error(message, title)
    \/ \E message \in Messages, title \in Titles : warning(message, title)
    \/ \E message \in Messages, title \in Titles : info(message, title)
    \/ RemoveToast
    \/ Render
    \/ Close
    \/ ProviderUnmount
    \/ CallUseToast
    \/ \E message \in Messages, type \in ToastType : LegacyToast(message, type)

SpecApi == Init /\ [][NextApi]_vars

\* ---------------------------------------------------------- properties
InList(s) == s \in SerialsOf(toasts)
Rendered == providerMounted /\ queue = << >>
Added(s) == given[s] # Undefined
Settings(s) == given[s][1]
TimersOf(s, kind) == {i \in 1 .. Len(timers) : timers[i].owner = s /\ timers[i].kind = kind}
RequestsOf(s) == {r \in requests : r.owner = s}

\* C1: the list is ordered newest-first: of two toasts in it, the one whose
\* addToast call came later stands before the other.
C1_NewestFirst ==
    \A i, j \in 1 .. Len(toasts) : i < j => toasts[i].serial > toasts[j].serial

C1_Witness == Len(toasts) = 2 /\ apiRemoves # << >> /\ queue = << >>

\* C2: a render that applies only removeToast updaters whose ids are not in
\* the list leaves the list, the mounted items and their timers as they were.
C2_RemoveAbsentIsNoOp ==
    [][(/\ Render
        /\ \A k \in 1 .. Len(queue) :
              queue[k].op = "remove" /\ queue[k].id \notin IdsOf(toasts))
       => (toasts' = toasts /\ items' = items /\ timers' = timers
           /\ numRemoved' = numRemoved)]_vars

C2_Witness ==
    /\ Rendered
    /\ apiRemoves # << >>
    /\ numRemoved = 0
    /\ requests = {}
    /\ toasts # << >>

\* C3: once every call has been rendered, the length of the list is the
\* number of addToast calls minus the number of removals that found their id.
C3_LengthIsAddsMinusRemovals ==
    Rendered => Len(toasts) = numAdds - numRemoved

\* C4: no two toasts in the list have the same id.
C4_UniqueIds ==
    \A i, j \in 1 .. Len(toasts) : i # j => toasts[i].id # toasts[j].id

\* What the caller of addToast asked for.
IsPersistent(s) == Settings(s).persistent = Some(TRUE)
IsDefault(s) == Settings(s).duration = Undefined /\ Settings(s).persistent = Undefined
GivenDuration(s) ==
    IF Settings(s).duration = Undefined THEN DefaultDuration ELSE Settings(s).duration[1]
\* Nobody dismissed toast s: its close button was not clicked and no
\* removeToast call of the application named it.
Untouched(s) == closedAt[s] = Undefined /\ s \notin apiHit
StillThere(s) == s \in {t.serial : t \in Alive}

\* C5: while the provider is mounted, a toast added with persistent = true
\* whose close button was not clicked and which removeToast was not called
\* for stays in the list, never shows as leaving and issues no removal
\* request.
C5_PersistentNeverAutoRemoved ==
    \A s \in Serials :
        (Added(s) /\ IsPersistent(s) /\ providerMounted /\ Untouched(s))
        => /\ StillThere(s)
           /\ ~isLeaving[s]
           /\ TimersOf(s, "expiry") = {}
           /\ TimersOf(s, "exit") = {}
           /\ RequestsOf(s) = {}

\* C6: the same for a toast added with duration 0 and persistent unset: no
\* expiry timer is scheduled for it and it stays in the list.
C6_ZeroDurationNeverAutoRemoved ==
    \A s \in Serials :
        (/\ Added(s)
         /\ Settings(s).duration = Some(0)
         /\ Settings(s).persistent = Undefined
         /\ providerMounted
         /\ Untouched(s))
        => /\ StillThere(s)
           /\ ~isLeaving[s]
           /\ TimersOf(s, "expiry") = {}
           /\ TimersOf(s, "exit") = {}
           /\ RequestsOf(s) = {}

\* C7 as claimed: every removal request issued to a mounted provider by the
\* item of a toast added with default settings at time T is issued at
\* T + 5000 or later.
C7_DefaultRequestNotBeforeDuration ==
    providerMounted
    => \A r \in requests :
          IsDefault(r.owner) => r.at >= addedAt[r.owner][1] + DefaultDuration

\* C7 as amended: the same, for the items whose close button was not
\* clicked before the request.
C7_UnclosedDefaultRequestNotBeforeDuration ==
    \A r \in requests :
        (/\ IsDefault(r.owner)
         /\ (closedAt[r.owner] = Undefined \/ closedAt[r.owner][1] > r.at))
        => r.at >= addedAt[r.owner][1] + DefaultDuration

C7_Witness ==
    \E r \in requests :
        /\ IsDefault(r.owner)
        /\ closedAt[r.owner] = Undefined
        /\ r.at = addedAt[r.owner][1] + DefaultDuration + ExitHold

\* C8: with no close, no removeToast call of the application and the
\* provider mounted, a non-persistent toast of duration d > 0 whose item
\* mounted at time M is in the list before M + d + 300 and out of it after.
C8_GoneExactlyAfterDurationPlusHold ==
    \A s \in Serials :
        (/\ Added(s)
         /\ ~IsPersistent(s)
         /\ GivenDuration(s) > 0
         /\ mountedAt[s] # Undefined
         /\ clicks = 0 /\ apiRemoves = << >> /\ providerMounted)
        => LET end == mountedAt[s][1] + GivenDuration(s) + ExitHold
           IN  /\ now < end => InList(s)
               /\ now > end => ~InList(s)

AddsOne(type, message, title) ==
    /\ Len(queue') = Len(queue) + 1
    /\ SubSeq(queue', 1, Len(queue)) = queue
    /\ LET u == queue'[Len(queue')]
       IN  /\ u.op = "add"
           /\ u.toast.type = type
           /\ u.toast.message = message
           /\ u.toast.title = title
           /\ u.toast.duration = Some(DefaultDuration)
           /\ u.toast.persistent = Undefined
           /\ Len(ApplyUpdater(u, toasts)) = Len(toasts) + 1
           /\ Head(ApplyUpdater(u, toasts)) = u.toast

C10_WrappersAndDefaults ==
    [][/\ \A message \in Messages, title \in Titles :
            /\ success(message, title) => AddsOne("success", message, title)
            /\ error(message, title) => AddsOne("error", message, title)
            /\ warning(message, title) => AddsOne("warning", message, title)
            /\ info(message, title) => AddsOne("info", message, title)
       /\ \A toastData \in ToastDataInputs :
            addToast(toastData)
            => queue'[Len(queue')].toast.duration
                 = (IF "duration" \in DOMAIN toastData THEN toastData.duration
                    ELSE Some(DefaultDuration))]_vars

C10_Witness ==
    \E i, j \in 1 .. Len(toasts) :
        /\ toasts[i].type = "error"
        /\ toasts[i].title = Some("Upload error")
        /\ toasts[i].duration = Some(DefaultDuration)
        /\ toasts[i].persistent = Undefined
        /\ toasts[j].duration = Some(400)

\* C11: every pending timer (entrance tick, expiry, exit hold) belongs to a
\* ToastItem that is still mounted, so no callback of an unmounted item runs.
C11_NoTimerOfUnmountedItem ==
    \A i \in 1 .. Len(timers) : timers[i].owner \in items

\* C12: of the removal triggers on one item (expiry, close clicks) only the
\* first has an effect: an item has at most one exit hold running or run, so
\* it asks the provider for its removal at most once.
C12_OneRemovalRequestPerItem ==
    \A s \in Serials :
        Cardinality(TimersOf(s, "exit")) + Cardinality(RequestsOf(s)) <= 1

\* C13: a useToast() call outside a mounted provider throws and returns
\* nothing; a call below a mounted provider returns the provider's API.
C13_UseToastNeedsProvider ==
    [][CallUseToast
       => IF providerMounted
          THEN /\ hookResult'.outcome = "returned"
               /\ hookResult'.value = Some(contextValue)
               /\ hookResult'.error = Undefined
          ELSE /\ hookResult'.outcome = "threw"
               /\ hookResult'.error # Undefined
               /\ hookResult'.value = Undefined]_vars

C13_Witness ==
    /\ ~providerMounted
    /\ hookResult.outcome = "threw"
    /\ hookResult.error = Some("useToast must be used within a ToastProvider")

\* C14: a call of the legacy toast(message, type) leaves the list, the queued
\* updaters, the mounted items, their state and their timers as they were; it
\* logs one warning and does nothing else.
C14_LegacyToastOnlyWarns ==
    [][(\E message \in Messages, type \in ToastType : LegacyToast(message, type))
       => /\ UNCHANGED << toasts, queue, items, isVisible, isLeaving, timers >>
          /\ UNCHANGED << providerMounted, hookResult >>
          /\ warnings' = warnings + 1]_vars

C14_Witness ==
    /\ warnings > 0
    /\ providerMounted
    /\ Len(toasts) = 2
    /\ queue # << >>
    /\ timers # << >>
    /\ \E s \in items : isLeaving[s]

\* C15: a mounted item that shows Leaving shows Leaving in every later state
\* until it unmounts, also when its entrance tick fires after it began to
\* leave.
C15_LeavingNeverVisibleAgain ==
    [][\A s \in items \cap items' :
          EntryState(s) = "Leaving" => EntryState(s)' = "Leaving"]_vars

C15_Witness ==
    \E s \in items :
        /\ isLeaving[s]
        /\ isVisible[s]
        /\ EntryState(s) = "Leaving"
        /\ closedAt[s] # Undefined
        /\ closedAt[s][1] < mountedAt[s][1] + EntranceTick

\* C16 as the specification has it: an item comes to Leaving only from
\* Visible, never directly from Entering.
C16_LeavingOnlyFromVisible ==
    [][\A s \in items \cap items' :
          (EntryState(s) # "Leaving" /\ EntryState(s)' = "Leaving")
          => EntryState(s) = "Visible"]_vars

\* C16: an item mounts as Entering and its state only moves forward: from
\* Entering to Visible, from Visible to Leaving, or from Entering straight to
\* Leaving when the removal trigger comes while the entrance tick is still
\* pending; it never moves back.
C16_LifecycleOnlyForward ==
    [][/\ \A s \in items' \ items : EntryState(s)' = "Entering"
       /\ \A s \in items \cap items' :
             EntryState(s)' # EntryState(s)
             => \/ EntryState(s) = "Entering" /\ EntryState(s)' = "Visible"
                \/ EntryState(s) = "Visible" /\ EntryState(s)' = "Leaving"
                \/ /\ EntryState(s) = "Entering"
                   /\ EntryState(s)' = "Leaving"
                   /\ TimersOf(s, "entrance") # {}]_vars

C16_Witness ==
    \E s \in items :
        /\ EntryState(s) = "Leaving"
        /\ ~isVisible[s]
        /\ closedAt[s] = Undefined
        /\ GivenDuration(s) < EntranceTick
        /\ TimersOf(s, "entrance") # {}

\* The list without the toast of serial s.
WithoutSerial(list, s) == SelectSeq(list, LAMBDA t : t.serial # s)

\* Applying the updaters of q to prev in order, every removal request of an
\* item whose toast is in the list drops that toast and no other.
RECURSIVE EachRequestDropsExactlyOne(_, _)
EachRequestDropsExactlyOne(q, prev) ==
    \/ q = << >>
    \/ LET u == Head(q)
           list == ApplyUpdater(u, prev)
       IN  /\ (u.op = "remove" /\ u.from # Application /\ u.from \in SerialsOf(prev))
              => (Len(list) = Len(prev) - 1 /\ list = WithoutSerial(prev, u.from))
           /\ EachRequestDropsExactlyOne(Tail(q), list)

\* C17: a removal request of an item whose toast is in the list when the
\* request is applied makes the list one shorter: that toast is dropped and
\* the others stay, in the order they had.
C17_RequestDropsExactlyItsToast == EachRequestDropsExactlyOne(queue, toasts)

\* C18: when nothing is waiting to render, the list is the one obtained by
\* running every addToast and removeToast call at once, in the order of the
\* calls, also when several calls came between two renders.
C18_CallsTakeEffectInCallOrder == Rendered => toasts = called

C18_Witness ==
    /\ Rendered
    /\ numAdds = 2
    /\ apiRemoves # << >>
    /\ mountedAt[1] # Undefined
    /\ mountedAt[2] = Undefined
    /\ toasts = called
    /\ Len(toasts) = 1

\* C19: a mounted item has at most one pending expiry timer; it has one only
\* if its toast is not persistent and its duration is not 0; the timer was
\* set when the item mounted, is due one effective duration after the mount,
\* and stays so until it fires or the item unmounts.
C19_OneExpiryTimerSetAtMount ==
    /\ \A i \in 1 .. Len(timers) :
          timers[i].kind = "expiry" => timers[i].owner \in items
    /\ \A s \in items :
          /\ Cardinality(TimersOf(s, "expiry")) <= 1
          /\ \A i \in TimersOf(s, "expiry") :
                /\ ~IsPersistent(s)
                /\ Settings(s).duration # Some(0)
                /\ timers[i].due = mountedAt[s][1] + GivenDuration(s)
          /\ (/\ ~IsPersistent(s)
              /\ Settings(s).duration # Some(0)
              /\ now < mountedAt[s][1] + GivenDuration(s))
             => TimersOf(s, "expiry") # {}

C19_Witness ==
    \E s \in items :
        /\ TimersOf(s, "expiry") # {}
        /\ isLeaving[s]
        /\ closedAt[s] # Undefined
        /\ now > closedAt[s][1]
        /\ \E r \in items \ {s} : IsPersistent(r) /\ TimersOf(r, "expiry") = {}

\* Applying the updaters of q to prev in order, no removal request of an item
\* drops a toast of another item.
RECURSIVE EachRequestDropsOnlyItsOwn(_, _)
EachRequestDropsOnlyItsOwn(q, prev) ==
    \/ q = << >>
    \/ LET u == Head(q)
           list == ApplyUpdater(u, prev)
       IN  /\ (u.op = "remove" /\ u.from # Application)
              => SerialsOf(prev) \ SerialsOf(list) \subseteq {u.from}
           /\ EachRequestDropsOnlyItsOwn(Tail(q), list)

\* C20: a removal request of an item takes nothing out of the list but the
\* toast that item showed; in particular no toast added after it.
C20_RequestRemovesOnlyItsOwnToast == EachRequestDropsOnlyItsOwn(queue, toasts)

====
